---- MODULE Spec2Model ----
(***************************************************************************)
(* Whisp: one-time secret exchange (src/app/main.py).                      *)
(*                                                                         *)
(* The model follows the three request handlers create_whisp, get_whisp    *)
(* and get_whisp_file and the two background tasks cleanup_expired_whisps  *)
(* and delete_file.  Every handler is cut at its awaits: one action per    *)
(* stretch of code that runs without yielding to the event loop, so that   *)
(* concurrent requests interleave exactly where the code lets them.        *)
(*                                                                         *)
(* The record store is the committed content of the whisps table: a SELECT *)
(* reads it, a session's DELETE of a loaded object takes effect at commit  *)
(* and matches zero rows (without failing) when the row is already gone.   *)
(***************************************************************************)
EXTENDS Integers, Sequences, FiniteSets, TLC

(***************************************************************************)
(* Bounds of the model.                                                    *)
(***************************************************************************)
MaxProcs == 2       \* requests in flight at the same time
MaxWhisps == 1      \* whisps created in one run
MaxTime == 2        \* clock ticks (minutes)
MaxReqs == 3        \* requests accepted in one run

(***************************************************************************)
(* Program constants.                                                      *)
(***************************************************************************)
MIN_TTL == 1                       \* main.py:186
MAX_TTL == 10080                   \* main.py:186
MAX_FILE_SIZE == 10485760          \* main.py:31
CHUNK_SIZE == 1048576              \* main.py:218

(***************************************************************************)
(* Inputs.                                                                 *)
(***************************************************************************)
Procs == 1..MaxProcs
WhispIds == 1..MaxWhisps
TTLs == {0, 1, MAX_TTL, MAX_TTL + 1}
\* "" stands for a password that is None or empty: the code tests
\* `if password` and `not password`, which treat both alike.
CreatePasswords == {"", "p"}
FetchPasswords == {"", "p", "q"}
None == <<>>
Some(x) == <<x>>
\* What a client posts: encrypted_payload (the text, or the file's name) and
\* the upload, if any, with its bytes and their length.
Posts ==
    { [payload |-> "a", upload |-> None],
      [payload |-> "b", upload |-> None],
      [payload |-> "a", upload |-> Some([bytes |-> "x", size |-> 1])],
      [payload |-> "b", upload |-> Some([bytes |-> "y", size |-> MAX_FILE_SIZE])],
      [payload |-> "a", upload |-> Some([bytes |-> "z", size |-> MAX_FILE_SIZE + 1])] }

NoPath == 0
NoHash == [salted |-> ""]

(***************************************************************************)
(* app.core.security: a one-way hash and its verification.                 *)
(***************************************************************************)
get_password_hash(password) == [salted |-> password]
verify_password(password, hash) == hash = [salted |-> password]

(***************************************************************************)
(* cryptography.fernet: authenticated encryption under a per-file key.     *)
(* A token records the key and the plaintext it was made from; decrypt     *)
(* gives the plaintext back only under that key and fails otherwise.       *)
(***************************************************************************)
EmptyFile == [key |-> 0, plain |-> "", sealed |-> FALSE]
\* Fernet.generate_key(): a fresh key at every call, here the one of the
\* whisp it is made for.
FernetKey(whisp_id) == whisp_id
FernetEncrypt(key, plain) == [key |-> key, plain |-> plain, sealed |-> TRUE]
\* Faulty variant: no authentication, every token decrypts.
FernetValidAlways(key, token) == TRUE
FernetValid(key, token) == token.sealed /\ token.key = key
FernetDecrypt(key, token) == token.plain

(***************************************************************************)
(* The stored payload.  A text whisp keeps the client's string; a file     *)
(* whisp keeps json.dumps({"filename": ..., "key": ...}).                  *)
(***************************************************************************)
TextPayload(s) == [text |-> s]
\* Faulty variant: the key written into the payload is not the one the blob
\* was encrypted under.
JsonDumpsOtherKey(filename, key) == [filename |-> filename, key |-> key + 1]
JsonDumps(filename, key) == [filename |-> filename, key |-> key]
\* metadata.get("key") after json.loads; None when the payload holds no key.
MetadataKey(payload) == IF "key" \in DOMAIN payload THEN payload.key ELSE 0
MetadataFilename(payload) ==
    IF "filename" \in DOMAIN payload THEN payload.filename ELSE "downloaded_file"

\* os.path.join(STORAGE_DIR, f"{whisp_id}_{safe_filename}.enc"): one path
\* per whisp id.
FilePath(whisp_id) == whisp_id

\* Faulty variant: the row lives a minute longer than asked for.
WhispLongerLife(id, payload, is_file, file_path, password_hash, expires_at) ==
    [ id |-> id, encrypted_payload |-> payload, is_file |-> is_file,
      file_path |-> file_path, password_hash |-> password_hash,
      expires_at |-> expires_at + 1 ]

\* Whisp(id=..., encrypted_payload=..., is_file=..., file_path=..., ...)
Whisp(id, payload, is_file, file_path, password_hash, expires_at) ==
    [ id |-> id, encrypted_payload |-> payload, is_file |-> is_file,
      file_path |-> file_path, password_hash |-> password_hash,
      expires_at |-> expires_at ]

\* schemas.WhispRead.model_validate(whisp): the public metadata of a row.
WhispRead(whisp) ==
    [ id |-> whisp.id, encrypted_payload |-> whisp.encrypted_payload,
      is_file |-> whisp.is_file, expires_at |-> whisp.expires_at ]

\* Response(content=content, headers={"Content-Disposition": ...filename...})
FileResponse(content, filename) == [content |-> content, filename |-> filename]

(***************************************************************************)
(* The conditions the handlers test.                                       *)
(***************************************************************************)
\* Faulty variant: the lower bound is not tested.
ValidTTLUpperOnly(ttl) == ~(ttl > MAX_TTL)

\* `ttl_minutes < 1 or ttl_minutes > 10080` is the rejection.
ValidTTL(ttl) == ~(ttl < MIN_TTL \/ ttl > MAX_TTL)

\* Faulty variants: the comparison turned around, and the comparison made
\* inclusive.
ExpiredReversed(whisp, t) == whisp.expires_at > t
ExpiredInclusive(whisp, t) == whisp.expires_at <= t

\* `whisp.expires_at < datetime.utcnow()`
Expired(whisp, t) == whisp.expires_at < t

\* password_hash = get_password_hash(password) if password else None
HashOf(password) == IF password # "" THEN get_password_hash(password) ELSE NoHash

\* Faulty variant: the hash is only compared when a password is supplied.
PasswordOkIfGiven(whisp, password) ==
    IF whisp.password_hash # NoHash /\ password # ""
    THEN verify_password(password, whisp.password_hash)
    ELSE TRUE

\* The gate of both readers: a row with a hash needs a non-empty password
\* that verifies against it.
PasswordOk(whisp, password) ==
    IF whisp.password_hash # NoHash
    THEN ~(password = "" \/ ~verify_password(password, whisp.password_hash))
    ELSE TRUE

\* Faulty variant: get_whisp deletes whatever it read.
MetaConsumesAlways(whisp) == TRUE

\* `if not whisp.is_file:` get_whisp deletes only what is not a file.
MetaConsumes(whisp) == ~whisp.is_file

\* The upload loop: read CHUNK_SIZE at a time, add up, stop as soon as the
\* total passes MAX_FILE_SIZE.  TRUE when the upload was rejected.
RECURSIVE ScanTooLarge(_, _)
ScanTooLarge(remaining, total) ==
    IF remaining = 0 THEN FALSE
    ELSE LET chunk == IF remaining < CHUNK_SIZE THEN remaining ELSE CHUNK_SIZE
         IN  IF total + chunk > MAX_FILE_SIZE THEN TRUE
             ELSE ScanTooLarge(remaining - chunk, total + chunk)

(***************************************************************************)
(* The two stores.                                                         *)
(***************************************************************************)
\* db.add(new_whisp); commit
InsertRow(rows, whisp) ==
    [i \in DOMAIN rows \cup {whisp.id} |-> IF i = whisp.id THEN whisp ELSE rows[i]]

\* Faulty variant: the DELETE never reaches the table.
DeleteRowLost(rows, id) == rows

\* db.delete(whisp); commit: DELETE ... WHERE id = :id, which matches no
\* row when another session already deleted it.
DeleteRow(rows, id) == [i \in DOMAIN rows \ {id} |-> rows[i]]

\* Faulty variant: the DELETE has no WHERE clause.
SweepVictimsAll(rows, t) == DOMAIN rows

\* delete(Whisp).where(Whisp.expires_at < now): the rows the statement hits.
SweepVictims(rows, t) == {i \in DOMAIN rows : Expired(rows[i], t)}

\* Faulty variant: the sweep's DELETE is rolled back.
DeleteRowsKept(rows, ids) == rows

\* The commit of the sweep's DELETE.
DeleteRows(rows, ids) == [i \in DOMAIN rows \ ids |-> rows[i]]

\* os.path.exists(path)
PathExists(files, path) == path \in DOMAIN files

\* Faulty variant: nothing reaches the disk.
WriteFileNowhere(files, path, blob) == files

\* open(path, "wb") + write
WriteFile(files, path, blob) ==
    [f \in DOMAIN files \cup {path} |-> IF f = path THEN blob ELSE files[f]]

\* Faulty variant: the file stays where it is.
RemoveFileKept(files, path) == files

\* os.remove(path)
RemoveFile(files, path) == [f \in DOMAIN files \ {path} |-> files[f]]

(***************************************************************************)
(* State.                                                                  *)
(***************************************************************************)
VARIABLES
    db,         \* the whisps table: id -> row, committed content
    disk,       \* STORAGE_DIR: path -> blob
    now,        \* datetime.utcnow(), in minutes
    nextId,     \* the next uuid4
    req,        \* the requests in flight: slot -> its locals, position, answer
    nreq,       \* the number of requests accepted so far
    orig,       \* history: what each whisp was created from
    redeemed    \* history: how many responses handed out each whisp's secret

vars == <<db, disk, now, nextId, req, nreq, orig, redeemed>>

\* The locals of a request.  whisp is what the SELECT loaded (for a create,
\* the row being built); status and body are the response, 0 until it is
\* sent.  Three fields are history: nowRead is the clock the request read,
\* late says a redemption of its whisp had already been answered when it
\* arrived, raced says another handler ran while this one did.
Idle ==
    [ kind |-> "idle", pc |-> "idle", id |-> 0, password |-> "", ttl |-> 0,
      payload |-> "", upload |-> None, whisp |-> None, content |-> None,
      victims |-> {}, seen |-> {}, status |-> 0, body |-> None,
      nowRead |-> 0, late |-> FALSE, raced |-> FALSE ]

\* A handler that has not answered yet.
Handling(r) == r.kind # "idle" /\ r.status = 0

\* The slot a new request takes.
IsFree(p) == req[p].kind = "idle" /\ \A q \in Procs : q < p => req[q].kind # "idle"

\* A new request in slot p: it and every handler still running overlap.
Admit(p, r) ==
    LET busy == \E q \in Procs : Handling(req[q])
    IN  [q \in Procs |->
            IF q = p THEN [r EXCEPT !.raced = busy]
            ELSE IF Handling(req[q]) THEN [req[q] EXCEPT !.raced = TRUE]
            ELSE req[q]]

\* Whether a response hands out the secret itself: the text of a text whisp
\* from get_whisp, the bytes of a file whisp from get_whisp_file.
Redeems(r, status) ==
    /\ status = 200
    /\ \/ r.kind = "meta" /\ r.whisp # None /\ ~r.whisp[1].is_file
       \/ r.kind = "file"

\* The handler in slot p answers; it goes on at pcNext: its background task,
\* or "done" when nothing is left to run.
Respond(p, r, status, body, pcNext) ==
    LET done == [r EXCEPT !.status = status, !.body = body, !.pc = pcNext]
    IN  /\ req' = [req EXCEPT ![p] = done]
        /\ redeemed' = IF Redeems(r, status)
                       THEN [redeemed EXCEPT ![r.id] = @ + 1]
                       ELSE redeemed

Init ==
    /\ db = <<>>
    /\ disk = <<>>
    /\ now = 0
    /\ nextId = 1
    /\ req = [p \in Procs |-> Idle]
    /\ nreq = 0
    /\ orig = <<>>
    /\ redeemed = [i \in WhispIds |-> 0]

(***************************************************************************)
(* create_whisp                                                            *)
(***************************************************************************)
\* Lines 185-219: the TTL check, then expires_at, the hash, the id, and for
\* an upload the path, the key and the wrapped payload.  Nothing is awaited.
StartCreate(p) ==
    /\ IsFree(p)
    /\ nreq < MaxReqs
    /\ nreq' = nreq + 1
    /\ \E ttl \in TTLs, password \in CreatePasswords, post \in Posts :
         LET payload == post.payload
             upload == post.upload
             r == [Idle EXCEPT !.kind = "create", !.ttl = ttl,
                               !.password = password, !.payload = payload,
                               !.upload = upload]
         IN  IF ~ValidTTL(ttl)
             THEN /\ Respond(p, r, 400, None, "done")
                  /\ UNCHANGED <<nextId, orig>>
             ELSE /\ nextId <= MaxWhisps
                  /\ LET id == nextId
                         is_file == upload # None
                         new == Whisp(id,
                                      IF is_file THEN JsonDumps(payload, FernetKey(id))
                                                 ELSE TextPayload(payload),
                                      is_file,
                                      IF is_file THEN FilePath(id) ELSE NoPath,
                                      HashOf(password),
                                      now + ttl)
                     IN  /\ req' = Admit(p, [r EXCEPT !.id = id, !.whisp = Some(new),
                                               !.pc = IF is_file THEN "c_open"
                                                                 ELSE "c_insert"])
                         /\ nextId' = nextId + 1
                         /\ orig' = [i \in DOMAIN orig \cup {id} |->
                                       IF i = id
                                       THEN [payload |-> payload, upload |-> upload,
                                             password |-> password,
                                             expires_at |-> now + ttl]
                                       ELSE orig[i]]
                         /\ UNCHANGED redeemed
    /\ UNCHANGED <<db, disk, now>>

\* Line 221: aiofiles.open(file_path, "wb") creates the file, empty.
CreateOpen(p) ==
    /\ req[p].pc = "c_open"
    /\ disk' = WriteFile(disk, req[p].whisp[1].file_path, EmptyFile)
    /\ req' = [req EXCEPT ![p].pc = "c_scan"]
    /\ UNCHANGED <<db, now, nextId, nreq, orig, redeemed>>

\* Lines 222-240 and 252-258: the chunk loop only counts; past the limit
\* it closes and removes the file and raises 413, which the handler re-raises.
\* When the file is no longer there os.remove raises instead, and the
\* handler turns that into 500.
CreateScan(p) ==
    /\ req[p].pc = "c_scan"
    /\ LET r == req[p]
           path == r.whisp[1].file_path
       IN  IF ScanTooLarge(r.upload[1].size, 0)
           THEN IF PathExists(disk, path)
                THEN /\ disk' = RemoveFile(disk, path)
                     /\ Respond(p, r, 413, None, "done")
                ELSE /\ disk' = disk
                     /\ Respond(p, r, 500, None, "done")
           ELSE /\ req' = [req EXCEPT ![p].pc = "c_write"]
                /\ UNCHANGED <<disk, redeemed>>
    /\ UNCHANGED <<db, now, nextId, nreq, orig>>

\* Lines 243-250: read the whole upload again, encrypt it, write the blob.
CreateWrite(p) ==
    /\ req[p].pc = "c_write"
    /\ LET r == req[p]
           w == r.whisp[1]
           key == FernetKey(r.id)
       IN  IF r.upload[1].size > MAX_FILE_SIZE
           THEN /\ disk' = IF PathExists(disk, w.file_path)
                           THEN RemoveFile(disk, w.file_path) ELSE disk
                /\ Respond(p, r, 413, None, "done")
           ELSE /\ disk' = WriteFile(disk, w.file_path,
                                     FernetEncrypt(key, r.upload[1].bytes))
                /\ req' = [req EXCEPT ![p].pc = "c_insert"]
                /\ UNCHANGED redeemed
    /\ UNCHANGED <<db, now, nextId, nreq, orig>>

\* Lines 260-276: insert the row, commit, schedule the sweep, return.
CreateInsert(p) ==
    /\ req[p].pc = "c_insert"
    /\ LET r == req[p]
           w == r.whisp[1]
       IN  /\ db' = InsertRow(db, w)
           /\ Respond(p, r, 200, Some(WhispRead(w)), "sw_exec")
    /\ UNCHANGED <<disk, now, nextId, nreq, orig>>

(***************************************************************************)
(* cleanup_expired_whisps, the background task of a successful create      *)
(***************************************************************************)
\* Line 76: the DELETE picks its rows against the clock it reads.
SweepExec(p) ==
    /\ req[p].pc = "sw_exec"
    /\ req' = [req EXCEPT ![p].pc = "sw_commit",
                          ![p].victims = SweepVictims(db, now),
                          ![p].seen = DOMAIN db,
                          ![p].nowRead = now]
    /\ UNCHANGED <<db, disk, now, nextId, nreq, orig, redeemed>>

\* Line 77: commit.
SweepCommit(p) ==
    /\ req[p].pc = "sw_commit"
    /\ db' = DeleteRows(db, req[p].victims)
    /\ req' = [req EXCEPT ![p] = Idle]
    /\ UNCHANGED <<disk, now, nextId, nreq, orig, redeemed>>

(***************************************************************************)
(* get_whisp                                                               *)
(***************************************************************************)
\* Lines 300-301: the SELECT by id; the session keeps what it loaded.
StartMeta(p) ==
    /\ IsFree(p)
    /\ nreq < MaxReqs
    /\ nreq' = nreq + 1
    /\ \E id \in 1..(nextId - 1), password \in FetchPasswords :
         req' = Admit(p, [Idle EXCEPT !.kind = "meta", !.pc = "m_check",
                                      !.id = id, !.password = password,
                                      !.whisp = IF id \in DOMAIN db
                                                THEN Some(db[id]) ELSE None,
                                      !.late = redeemed[id] > 0])
    /\ UNCHANGED <<db, disk, now, nextId, orig, redeemed>>

\* Lines 303-316: absent or expired is 404, a failed gate is 401; a file
\* whisp is returned as it is, anything else is marked for deletion.
MetaCheck(p) ==
    /\ req[p].pc = "m_check"
    /\ LET r == [req[p] EXCEPT !.nowRead = now]
       IN  IF r.whisp = None \/ Expired(r.whisp[1], now)
           THEN Respond(p, r, 404, None, "done")
           ELSE IF ~PasswordOk(r.whisp[1], r.password)
           THEN Respond(p, r, 401, None, "done")
           ELSE IF MetaConsumes(r.whisp[1])
           THEN /\ req' = [req EXCEPT ![p] = [r EXCEPT !.pc = "m_commit"]]
                /\ UNCHANGED redeemed
           ELSE Respond(p, r, 200, Some(WhispRead(r.whisp[1])), "done")
    /\ UNCHANGED <<db, disk, now, nextId, nreq, orig>>

\* Lines 317-321: remove a stray file if the row names one, commit the
\* DELETE, return the data read before.
MetaCommit(p) ==
    /\ req[p].pc = "m_commit"
    /\ LET r == req[p]
           w == r.whisp[1]
       IN  /\ disk' = IF w.file_path # NoPath /\ PathExists(disk, w.file_path)
                      THEN RemoveFile(disk, w.file_path) ELSE disk
           /\ db' = DeleteRow(db, w.id)
           /\ Respond(p, r, 200, Some(WhispRead(w)), "done")
    /\ UNCHANGED <<now, nextId, nreq, orig>>

(***************************************************************************)
(* get_whisp_file                                                          *)
(***************************************************************************)
\* Lines 348-349: the SELECT by id.
StartFile(p) ==
    /\ IsFree(p)
    /\ nreq < MaxReqs
    /\ nreq' = nreq + 1
    /\ \E id \in 1..(nextId - 1), password \in FetchPasswords :
         req' = Admit(p, [Idle EXCEPT !.kind = "file", !.pc = "f_check",
                                      !.id = id, !.password = password,
                                      !.whisp = IF id \in DOMAIN db
                                                THEN Some(db[id]) ELSE None,
                                      !.late = redeemed[id] > 0])
    /\ UNCHANGED <<db, disk, now, nextId, orig, redeemed>>

\* Lines 351-363: absent, not a file, without a path or expired is 404;
\* then the blob is looked for on disk, and only then the password checked.
FileCheck(p) ==
    /\ req[p].pc = "f_check"
    /\ LET r == [req[p] EXCEPT !.nowRead = now]
       IN  IF \/ r.whisp = None
              \/ ~r.whisp[1].is_file
              \/ r.whisp[1].file_path = NoPath
              \/ Expired(r.whisp[1], now)
           THEN Respond(p, r, 404, None, "done")
           ELSE IF ~PathExists(disk, r.whisp[1].file_path)
           THEN /\ req' = [req EXCEPT ![p] = [r EXCEPT !.pc = "f_heal"]]
                /\ UNCHANGED redeemed
           ELSE IF ~PasswordOk(r.whisp[1], r.password)
           THEN Respond(p, r, 401, None, "done")
           ELSE /\ req' = [req EXCEPT ![p] = [r EXCEPT !.pc = "f_read"]]
                /\ UNCHANGED redeemed
    /\ UNCHANGED <<db, disk, now, nextId, nreq, orig>>

\* Faulty variant: 404 without deleting the row.
FileHealNoDelete(p) ==
    /\ req[p].pc = "f_heal"
    /\ Respond(p, req[p], 404, None, "done")
    /\ UNCHANGED <<db, disk, now, nextId, nreq, orig>>

\* Lines 357-359: the blob is missing: delete the row, commit, 404.
FileHeal(p) ==
    /\ req[p].pc = "f_heal"
    /\ db' = DeleteRow(db, req[p].whisp[1].id)
    /\ Respond(p, req[p], 404, None, "done")
    /\ UNCHANGED <<disk, now, nextId, nreq, orig>>

\* Lines 365-390: take the key from the payload, open and read the blob,
\* decrypt it.  A file that is gone by now (FileNotFoundError) or a token
\* that does not authenticate (InvalidToken) is not caught: 500.
FileRead(p) ==
    /\ req[p].pc = "f_read"
    /\ LET r == req[p]
           w == r.whisp[1]
           key == MetadataKey(w.encrypted_payload)
       IN  IF ~PathExists(disk, w.file_path)
           THEN Respond(p, r, 500, None, "done")
           ELSE IF key # 0 /\ ~FernetValid(key, disk[w.file_path])
           THEN Respond(p, r, 500, None, "done")
           ELSE /\ req' = [req EXCEPT ![p].pc = "f_commit",
                                      ![p].content =
                                          Some(IF key # 0
                                               THEN FernetDecrypt(key, disk[w.file_path])
                                               ELSE disk[w.file_path])]
                /\ UNCHANGED redeemed
    /\ UNCHANGED <<db, disk, now, nextId, nreq, orig>>

\* Faulty variant: the blob is removed at once and the row is left in the
\* table.
FileCommitBlobFirst(p) ==
    /\ req[p].pc = "f_commit"
    /\ LET r == req[p]
           w == r.whisp[1]
       IN  /\ disk' = RemoveFile(disk, w.file_path)
           /\ Respond(p, r, 200,
                      Some(FileResponse(r.content[1],
                                        MetadataFilename(w.encrypted_payload))),
                      "bg_exists")
    /\ UNCHANGED <<db, now, nextId, nreq, orig>>

\* Faulty variant: the row is deleted and the bytes sent, but delete_file is
\* never scheduled.
FileCommitNoTask(p) ==
    /\ req[p].pc = "f_commit"
    /\ LET r == req[p]
           w == r.whisp[1]
       IN  /\ db' = DeleteRow(db, w.id)
           /\ Respond(p, r, 200,
                      Some(FileResponse(r.content[1],
                                        MetadataFilename(w.encrypted_payload))),
                      "done")
    /\ UNCHANGED <<disk, now, nextId, nreq, orig>>

\* Lines 391-401: commit the DELETE, schedule delete_file, send the bytes.
FileCommit(p) ==
    /\ req[p].pc = "f_commit"
    /\ LET r == req[p]
           w == r.whisp[1]
       IN  /\ db' = DeleteRow(db, w.id)
           /\ Respond(p, r, 200,
                      Some(FileResponse(r.content[1],
                                        MetadataFilename(w.encrypted_payload))),
                      "bg_exists")
    /\ UNCHANGED <<disk, now, nextId, nreq, orig>>

(***************************************************************************)
(* delete_file, the background task of a successful get_whisp_file         *)
(***************************************************************************)
\* Line 152: os.path.exists(path)
DeleteFileExists(p) ==
    /\ req[p].pc = "bg_exists"
    /\ req' = [req EXCEPT ![p] = IF PathExists(disk, req[p].whisp[1].file_path)
                                 THEN [req[p] EXCEPT !.pc = "bg_remove"]
                                 ELSE Idle]
    /\ UNCHANGED <<db, disk, now, nextId, nreq, orig, redeemed>>

\* Line 153: os.remove(path); when the file went away in between it raises
\* inside the task and nothing changes.
DeleteFileRemove(p) ==
    /\ req[p].pc = "bg_remove"
    /\ disk' = IF PathExists(disk, req[p].whisp[1].file_path)
               THEN RemoveFile(disk, req[p].whisp[1].file_path) ELSE disk
    /\ req' = [req EXCEPT ![p] = Idle]
    /\ UNCHANGED <<db, now, nextId, nreq, orig, redeemed>>

(***************************************************************************)
(* The end of a request: the response is out and no task is left.          *)
(***************************************************************************)
Leave(p) ==
    /\ req[p].pc = "done"
    /\ req' = [req EXCEPT ![p] = Idle]
    /\ UNCHANGED <<db, disk, now, nextId, nreq, orig, redeemed>>

(***************************************************************************)
(* The clock                                                               *)
(***************************************************************************)
Tick ==
    /\ now < MaxTime
    /\ now' = now + 1
    /\ UNCHANGED <<db, disk, nextId, req, nreq, orig, redeemed>>

Next ==
    \/ \E p \in Procs :
          \/ StartCreate(p) \/ CreateOpen(p) \/ CreateScan(p) \/ CreateWrite(p)
          \/ CreateInsert(p) \/ SweepExec(p) \/ SweepCommit(p)
          \/ StartMeta(p) \/ MetaCheck(p) \/ MetaCommit(p)
          \/ StartFile(p) \/ FileCheck(p) \/ FileHeal(p) \/ FileRead(p)
          \/ FileCommit(p) \/ DeleteFileExists(p) \/ DeleteFileRemove(p)
          \/ Leave(p)
    \/ Tick

Spec == Init /\ [][Next]_vars

(***************************************************************************)
(* The storage directory in other hands: a blob is deleted, or its bytes   *)
(* are changed, by something that is not this program.                     *)
(***************************************************************************)
\* What is left of a token whose bytes were changed: it authenticates under
\* no key.
Corrupted(token) == [token EXCEPT !.sealed = FALSE]

LoseBlob ==
    /\ \E path \in DOMAIN disk : disk' = RemoveFile(disk, path)
    /\ UNCHANGED <<db, now, nextId, req, nreq, orig, redeemed>>

TamperBlob ==
    /\ \E path \in DOMAIN disk :
          /\ disk[path].sealed
          /\ disk' = WriteFile(disk, path, Corrupted(disk[path]))
    /\ UNCHANGED <<db, now, nextId, req, nreq, orig, redeemed>>

NextEnv == Next \/ LoseBlob \/ TamperBlob

SpecEnv == Init /\ [][NextEnv]_vars

(***************************************************************************)
(* create_whisp with failing I/O: a file operation or the commit raises.   *)
(***************************************************************************)
\* Line 221: aiofiles.open raises; the except block finds no file and
\* raises 500.
CreateOpenFails(p) ==
    /\ req[p].pc = "c_open"
    /\ Respond(p, req[p], 500, None, "done")
    /\ UNCHANGED <<db, disk, now, nextId, nreq, orig>>

\* Lines 222-250 with 252-258: reading the upload, encrypting or writing
\* raises; the except block removes the file if it is there and raises 500.
CreateFileFails(p) ==
    /\ req[p].pc \in {"c_scan", "c_write"}
    /\ LET path == req[p].whisp[1].file_path
       IN  disk' = IF PathExists(disk, path) THEN RemoveFile(disk, path) ELSE disk
    /\ Respond(p, req[p], 500, None, "done")
    /\ UNCHANGED <<db, now, nextId, nreq, orig>>

\* Lines 269-270: db.commit() raises.  It stands after the try block: the
\* exception leaves the handler as it is, a 500, and no row is inserted.
CreateCommitFails(p) ==
    /\ req[p].pc = "c_insert"
    /\ Respond(p, req[p], 500, None, "done")
    /\ UNCHANGED <<db, disk, now, nextId, nreq, orig>>

NextFaults ==
    \/ Next
    \/ \E p \in Procs :
          CreateOpenFails(p) \/ CreateFileFails(p) \/ CreateCommitFails(p)

SpecFaults == Init /\ [][NextFaults]_vars

\* Starlette runs a response's background tasks once the response is sent:
\* a scheduled delete_file is not left waiting forever.
SpecFair ==
    /\ Init /\ [][Next]_vars
    /\ \A p \in Procs : WF_vars(DeleteFileExists(p)) /\ WF_vars(DeleteFileRemove(p))

(***************************************************************************)
(* What the properties below read off a request.                           *)
(***************************************************************************)
Answered(r) == r.status # 0
IsFetch(r) == r.kind \in {"meta", "file"}
OfText(r) == r.id \in DOMAIN orig /\ orig[r.id].upload = None
OfFile(r) == r.id \in DOMAIN orig /\ orig[r.id].upload # None
\* The caller holds the credentials the whisp was created with.
RightPassword(r) == orig[r.id].password = "" \/ r.password = orig[r.id].password
\* The request in slot p takes this step (the overlap mark is history, set
\* by the arrival of another request).
Steps(p) == [req'[p] EXCEPT !.raced = FALSE] # [req[p] EXCEPT !.raced = FALSE]

(***************************************************************************)
(* C1.  Concurrent get_whisp calls on one text whisp: exactly one returns  *)
(* the payload and the others get 404, so no text whisp is ever handed     *)
(* out twice and a caller with valid credentials never gets anything but   *)
(* 200 or 404.                                                             *)
(***************************************************************************)
C1_TextRedeemedOnce ==
    /\ \A id \in DOMAIN orig : orig[id].upload = None => redeemed[id] <= 1
    /\ \A p \in Procs :
          (req[p].kind = "meta" /\ Answered(req[p]) /\ OfText(req[p])
              /\ RightPassword(req[p]))
          => req[p].status \in {200, 404}

(***************************************************************************)
(* C2.  Concurrent get_whisp_file calls on one file whisp: exactly one     *)
(* returns the bytes, the others get 404, and none ends in a 500.          *)
(***************************************************************************)
C2_FileRedeemedOnce ==
    /\ \A id \in DOMAIN orig : orig[id].upload # None => redeemed[id] <= 1
    /\ \A p \in Procs :
          (req[p].kind = "file" /\ Answered(req[p]) /\ OfFile(req[p])
              /\ RightPassword(req[p]))
          => req[p].status \in {200, 404}

(***************************************************************************)
(* C3.  Text round trip.  A get_whisp that succeeds on a text whisp        *)
(* returns the posted payload and has deleted the row; a get_whisp that    *)
(* starts after a successful one gets 404; and a get_whisp that overlaps   *)
(* no other handler, with the right password, before expiry and before     *)
(* any redemption, succeeds.                                               *)
(***************************************************************************)
C3_TextRoundTrip ==
    \A p \in Procs :
       LET r == req[p] IN
       (r.kind = "meta" /\ Answered(r) /\ OfText(r)) =>
          /\ r.status = 200 =>
                /\ r.body # None
                /\ r.body[1].encrypted_payload = TextPayload(orig[r.id].payload)
                /\ r.id \notin DOMAIN db
          /\ r.late => r.status = 404 /\ r.body = None
          /\ (~r.raced /\ ~r.late /\ RightPassword(r)
                 /\ r.nowRead <= orig[r.id].expires_at) => r.status = 200

C3_SecondFetchNotFound ==
    \E p \in Procs :
       /\ req[p].kind = "meta" /\ OfText(req[p])
       /\ req[p].late /\ req[p].status = 404 /\ RightPassword(req[p])
       /\ req[p].nowRead <= orig[req[p].id].expires_at

(***************************************************************************)
(* C4.  File round trip.  A get_whisp_file that succeeds returns the       *)
(* uploaded bytes and has deleted the row; one that starts after a         *)
(* successful one gets 404; and one that overlaps no other handler, with   *)
(* the right password, before expiry and before any redemption, succeeds.  *)
(***************************************************************************)
C4_FileRoundTrip ==
    \A p \in Procs :
       LET r == req[p] IN
       (r.kind = "file" /\ Answered(r) /\ OfFile(r)) =>
          /\ r.status = 200 =>
                /\ r.body # None
                /\ r.body[1].content = orig[r.id].upload[1].bytes
                /\ r.id \notin DOMAIN db
          /\ r.late => r.status = 404 /\ r.body = None
          /\ (~r.raced /\ ~r.late /\ RightPassword(r)
                 /\ r.nowRead <= orig[r.id].expires_at
                 /\ orig[r.id].upload[1].size <= MAX_FILE_SIZE) => r.status = 200

C4_SecondDownloadNotFound ==
    \E p \in Procs :
       /\ req[p].kind = "file" /\ OfFile(req[p])
       /\ req[p].late /\ req[p].status = 404 /\ RightPassword(req[p])
       /\ req[p].nowRead <= orig[req[p].id].expires_at

(***************************************************************************)
(* C5.  get_whisp leaves file whisps alone.  No step of a get_whisp        *)
(* request changes a file row or the disk; a file row leaves the table     *)
(* only at the commit of a successful get_whisp_file, of the self-heal or  *)
(* of the sweep; and a get_whisp that found the file row, unexpired and    *)
(* with the right password, answers 200.                                   *)
(***************************************************************************)
C5_MetaKeepsFileWhisp ==
    [][ /\ \A p \in Procs :
              ((req[p].kind = "meta" \/ req'[p].kind = "meta") /\ Steps(p)) =>
                 /\ disk' = disk
                 /\ \A id \in DOMAIN db :
                       db[id].is_file => id \in DOMAIN db' /\ db'[id] = db[id]
        /\ \A id \in DOMAIN db :
              (db[id].is_file /\ id \notin DOMAIN db') =>
                 \E p \in Procs :
                    Steps(p) /\ req[p].pc \in {"f_commit", "f_heal", "sw_commit"}
        /\ \A p \in Procs :
              LET r == req[p] IN
              (r.pc = "m_check" /\ Steps(p) /\ r.whisp # None /\ OfFile(r)
                  /\ RightPassword(r) /\ now <= orig[r.id].expires_at) =>
                 req'[p].status = 200 /\ req'[p].body # None
      ]_vars

\* Two metadata reads of the same file whisp have both succeeded and the row
\* and the blob are still there.
C5_ReadTwiceStillThere ==
    \E p, q \in Procs :
       /\ p # q /\ req[p].id = req[q].id
       /\ req[p].kind = "meta" /\ req[p].status = 200 /\ OfFile(req[p])
       /\ req[q].kind = "meta" /\ req[q].status = 200
       /\ req[p].id \in DOMAIN db /\ PathExists(disk, db[req[p].id].file_path)

(***************************************************************************)
(* C6.  The password gate of get_whisp.  For a whisp created with a        *)
(* password: a get_whisp without it or with another one changes neither    *)
(* the table nor the disk at any of its steps and, when it found the row   *)
(* unexpired, answers 401; with the password it succeeds, and for a text   *)
(* whisp the row is gone when it answers.                                  *)
(***************************************************************************)
C6_MetaPasswordGate ==
    [][ \A p \in Procs :
           LET r == req[p] IN
           (r.kind = "meta" /\ Steps(p) /\ orig[r.id].password # "") =>
              /\ r.password # orig[r.id].password => db' = db /\ disk' = disk
              /\ (r.pc = "m_check" /\ r.whisp # None
                     /\ now <= orig[r.id].expires_at) =>
                    IF r.password # orig[r.id].password
                    THEN req'[p].status = 401 /\ req'[p].body = None
                    ELSE IF OfFile(r) THEN req'[p].status = 200
                    ELSE req'[p].pc = "m_commit"
              /\ r.pc = "m_commit" =>
                    /\ req'[p].status = 200 /\ req'[p].body # None
                    /\ r.id \notin DOMAIN db'
      ]_vars

\* A get_whisp was refused with 401 and the whisp is still in the table.
C6_RefusedNotConsumed ==
    \E p \in Procs :
       /\ req[p].kind = "meta" /\ req[p].status = 401
       /\ req[p].id \in DOMAIN db

(***************************************************************************)
(* C7.  The password gate of get_whisp_file.  For a file whisp created     *)
(* with a password, a get_whisp_file without it or with another one, on a  *)
(* row it found unexpired, answers 401, whatever else is in flight.        *)
(***************************************************************************)
C7_FilePasswordGate ==
    \A p \in Procs :
       LET r == req[p] IN
       (r.kind = "file" /\ Answered(r) /\ OfFile(r) /\ orig[r.id].password # ""
           /\ r.password # orig[r.id].password
           /\ r.whisp # None /\ r.nowRead <= orig[r.id].expires_at)
       => r.status = 401

(***************************************************************************)
(* C8.  Expiry.  A get_whisp or get_whisp_file that reads the clock after  *)
(* the whisp's expires_at answers 404 with no content, whatever password   *)
(* it brings and whether or not the row is still in the table; and when a  *)
(* sweep commits, every row its DELETE saw that had expired by the time it *)
(* read is gone.                                                           *)
(***************************************************************************)
C8_ExpiredUnreachable ==
    [][ /\ \A p \in Procs :
              LET r == req'[p] IN
              (IsFetch(r) /\ Answered(r) /\ orig'[r.id].expires_at < r.nowRead)
              => r.status = 404 /\ r.body = None
        /\ \A p \in Procs :
              (req[p].pc = "sw_commit" /\ Steps(p)) =>
                 \A id \in req[p].seen :
                    orig[id].expires_at < req[p].nowRead => id \notin DOMAIN db'
      ]_vars

\* A fetch of an expired whisp whose row no sweep has removed was answered 404.
C8_ExpiredUnsweptNotFound ==
    \E p \in Procs :
       /\ IsFetch(req[p]) /\ req[p].status = 404
       /\ req[p].whisp # None /\ req[p].id \in DOMAIN db
       /\ orig[req[p].id].expires_at < req[p].nowRead

(***************************************************************************)
(* C9, as claimed.  From expires_at on, that instant included, both        *)
(* readers answer 404 and a sweep deletes the row.                         *)
(***************************************************************************)
C9_ExpiredFromExpiresAt ==
    [][ /\ \A p \in Procs :
              LET r == req'[p] IN
              (IsFetch(r) /\ Answered(r) /\ orig'[r.id].expires_at <= r.nowRead)
              => r.status = 404
        /\ \A p \in Procs :
              (req[p].pc = "sw_commit" /\ Steps(p)) =>
                 \A id \in req[p].seen :
                    orig[id].expires_at <= req[p].nowRead => id \notin DOMAIN db'
      ]_vars

(***************************************************************************)
(* C9, amended.  The whisp is unreadable and purged strictly after         *)
(* expires_at: past it both readers answer 404 and a sweep deletes the     *)
(* row; at expires_at itself the expiry check of neither reader refuses    *)
(* the row it found, and a sweep that reads that instant leaves the row.   *)
(***************************************************************************)
C9_ExpiredAfterExpiresAt ==
    [][ /\ \A p \in Procs :
              LET r == req'[p] IN
              (IsFetch(r) /\ Answered(r) /\ orig'[r.id].expires_at < r.nowRead)
              => r.status = 404
        /\ \A p \in Procs :
              LET r == req[p] IN
              (r.pc \in {"m_check", "f_check"} /\ Steps(p) /\ r.whisp # None
                  /\ (r.kind = "file" => OfFile(r))
                  /\ orig[r.id].expires_at = now)
              => req'[p].status # 404
        /\ \A p \in Procs :
              (req[p].pc = "sw_commit" /\ Steps(p)) =>
                 \A id \in req[p].seen :
                    /\ orig[id].expires_at < req[p].nowRead => id \notin DOMAIN db'
                    /\ (orig[id].expires_at = req[p].nowRead /\ id \in DOMAIN db)
                          => id \in DOMAIN db'
      ]_vars

\* A fetch that read the clock at expires_at exactly was served.
C9_ServedAtExpiresAt ==
    \E p \in Procs :
       /\ IsFetch(req[p]) /\ req[p].status = 200
       /\ orig[req[p].id].expires_at = req[p].nowRead

(***************************************************************************)
(* C10.  A create with ttl_minutes < 1 or > 10080 is answered 400 at once: *)
(* its step changes neither the table nor the disk, takes no id, and the   *)
(* request has nothing left to run (no blob is opened, no sweep follows).  *)
(***************************************************************************)
C10_InvalidTTLNoEffect ==
    [][ \A p \in Procs :
           LET r == req'[p] IN
           (r.kind = "create" /\ (r.ttl < 1 \/ r.ttl > 10080)) =>
              /\ r.status = 400 /\ r.body = None /\ r.pc = "done" /\ r.id = 0
              /\ Steps(p) => /\ db' = db /\ disk' = disk
                             /\ nextId' = nextId /\ orig' = orig
      ]_vars

C10_RejectedCreate ==
    \E p \in Procs :
       /\ req[p].kind = "create" /\ req[p].status = 400
       /\ (req[p].ttl < 1 \/ req[p].ttl > 10080)

(***************************************************************************)
(* C11.  A create with ttl_minutes in [1, 10080] builds its row with        *)
(* expires_at = the clock it reads + ttl_minutes and, unless the upload is *)
(* too large, answers 200 with that expiry; every row in the table is the  *)
(* row its create built (payload, is_file, file_path, password_hash,       *)
(* expires_at), and no step changes a row that stays in the table.         *)
(***************************************************************************)
C11_ExpiryFixedAtCreate ==
    [][ /\ \A p \in Procs :
              LET r == req'[p] IN
              (req[p].kind = "idle" /\ r.kind = "create"
                  /\ r.ttl >= 1 /\ r.ttl <= 10080) =>
                 /\ r.whisp # None
                 /\ r.whisp[1].expires_at = now + r.ttl
                 /\ r.status = 0
        /\ \A p \in Procs :
              LET r == req'[p] IN
              (r.kind = "create" /\ Answered(r) /\ r.ttl >= 1 /\ r.ttl <= 10080
                  /\ (r.upload # None => r.upload[1].size <= MAX_FILE_SIZE)) =>
                 /\ r.status = 200 /\ r.body # None
                 /\ r.body[1].expires_at = r.whisp[1].expires_at
        /\ \A id \in DOMAIN db' :
              LET o == orig'[id] IN
              db'[id] = [ id |-> id,
                          encrypted_payload |->
                              IF o.upload = None THEN TextPayload(o.payload)
                              ELSE JsonDumps(o.payload, FernetKey(id)),
                          is_file |-> o.upload # None,
                          file_path |-> IF o.upload = None THEN NoPath
                                        ELSE FilePath(id),
                          password_hash |-> HashOf(o.password),
                          expires_at |-> o.expires_at ]
        /\ \A id \in DOMAIN db \cap DOMAIN db' : db'[id] = db[id]
      ]_vars

\* A create with the longest ttl was answered 200 a minute or more ago, its
\* file row has been read by get_whisp since, and the row still carries the
\* expiry it was built with.
C11_RowKeptItsExpiry ==
    \E p \in Procs :
       /\ req[p].kind = "meta" /\ req[p].status = 200
       /\ req[p].id \in DOMAIN db
       /\ now > 0
       /\ db[req[p].id].expires_at = MAX_TTL
       /\ db[req[p].id] = req[p].whisp[1]

(***************************************************************************)
(* C12.  A create whose upload is longer than MAX_FILE_SIZE (and whose ttl *)
(* is valid) is answered 413 and nothing else, with nothing left to run;   *)
(* when it answers, and ever after, the path of its id is not on disk and  *)
(* its id is not in the table.  An upload of MAX_FILE_SIZE bytes or fewer  *)
(* is not answered 413.                                                    *)
(***************************************************************************)
C12_TooLargeLeavesNothing ==
    \A p \in Procs :
       LET r == req[p] IN
       (r.kind = "create" /\ Answered(r) /\ r.upload # None
           /\ r.ttl >= 1 /\ r.ttl <= 10080) =>
          IF r.upload[1].size > MAX_FILE_SIZE
          THEN /\ r.status = 413 /\ r.body = None /\ r.pc = "done"
               /\ ~PathExists(disk, FilePath(r.id))
               /\ r.id \notin DOMAIN db
          ELSE r.status # 413

\* An upload one byte over the limit was refused after its file was opened.
C12_RefusedTooLarge ==
    \E p \in Procs :
       /\ req[p].kind = "create" /\ req[p].status = 413
       /\ req[p].upload # None /\ req[p].upload[1].size = MAX_FILE_SIZE + 1
       /\ req[p].id # 0

(***************************************************************************)
(* C13.  In get_whisp_file the row goes before the blob.  When a step of a *)
(* get_whisp_file request or of its delete_file task takes a blob off the  *)
(* disk, the row of that whisp is not in the table; once a download has    *)
(* been answered 200 the row is absent, and it never comes back, since a   *)
(* row enters the table only at the insert of its own create, before any   *)
(* redemption; and a get_whisp or get_whisp_file that arrives after the    *)
(* 200 is answered 404, whether or not delete_file has run.                *)
(***************************************************************************)
C13_RowGoesBeforeBlob ==
    [][ /\ \A id \in WhispIds :
              (/\ PathExists(disk, FilePath(id))
               /\ ~PathExists(disk', FilePath(id))
               /\ \E p \in Procs : req[p].kind = "file" /\ Steps(p))
              => id \notin DOMAIN db /\ id \notin DOMAIN db'
        /\ \A id \in DOMAIN orig' :
              (orig'[id].upload # None /\ redeemed'[id] > 0) => id \notin DOMAIN db'
        /\ \A id \in DOMAIN db' \ DOMAIN db :
              /\ redeemed[id] = 0
              /\ \E p \in Procs :
                    req[p].pc = "c_insert" /\ req[p].id = id /\ Steps(p)
        /\ \A p \in Procs :
              LET r == req'[p] IN
              (IsFetch(r) /\ Answered(r) /\ OfFile(r) /\ r.late) =>
                 r.status = 404 /\ r.body = None
      ]_vars

\* A fetch that arrived after a successful download was answered 404 while
\* the blob was still on disk, its deletion not yet run.
C13_GoneWhileBlobRemains ==
    \E p, q \in Procs :
       /\ req[p].kind = "file" /\ req[p].status = 200
       /\ req[p].pc \in {"bg_exists", "bg_remove"}
       /\ PathExists(disk, req[p].whisp[1].file_path)
       /\ IsFetch(req[q]) /\ req[q].id = req[p].id
       /\ req[q].late /\ req[q].status = 404

(***************************************************************************)
(* C14.  delete_file runs after every successful download.  Under fair     *)
(* scheduling of the task, once a get_whisp_file has answered 200 the blob *)
(* of that whisp is eventually off the disk (removed by this task or found *)
(* already gone by it).  No step of the task changes the table, the count  *)
(* of secrets handed out or the answer its request gave, whether it        *)
(* removes the file, finds it gone at os.path.exists, or fails at          *)
(* os.remove because another task removed it in between; and when the task *)
(* ends the blob is not on disk.                                           *)
(***************************************************************************)
C14_BlobDeletionAttempted ==
    /\ \A id \in WhispIds :
          (id \in DOMAIN orig /\ orig[id].upload # None /\ redeemed[id] > 0)
             ~> ~PathExists(disk, FilePath(id))
    /\ [][ \A p \in Procs :
              (req[p].pc \in {"bg_exists", "bg_remove"} /\ Steps(p)) =>
                 /\ db' = db /\ redeemed' = redeemed
                 /\ req[p].status = 200
                 /\ \/ /\ req'[p].pc = "bg_remove"
                       /\ req'[p].status = req[p].status
                       /\ req'[p].body = req[p].body
                    \/ /\ req'[p] = Idle
                       /\ ~PathExists(disk', req[p].whisp[1].file_path)
         ]_vars

\* Two downloads of one whisp were both answered; the task of one has removed
\* the blob while the other, which had seen it at os.path.exists, is about to
\* call os.remove on a file that is gone.
C14_RemoveFindsFileGone ==
    \E p \in Procs :
       /\ req[p].pc = "bg_remove" /\ req[p].status = 200
       /\ ~PathExists(disk, req[p].whisp[1].file_path)

(***************************************************************************)
(* C15.  Self-heal, with blobs that can disappear from the storage         *)
(* directory.  A get_whisp_file that loaded an unexpired file row and      *)
(* finds no blob at its path goes on to delete the row, whatever password  *)
(* it brought; that step removes this row and nothing else from the table, *)
(* leaves the disk alone and answers 404.  As long as that answer stands   *)
(* the row is absent; a row enters the table only at the insert of its own *)
(* create; and a get_whisp or get_whisp_file that arrives when the row is  *)
(* absent loads nothing and is answered 404.                               *)
(***************************************************************************)
C15_MissingBlobSelfHeal ==
    [][ /\ \A p \in Procs :
              LET r == req[p] IN
              (/\ r.pc = "f_check" /\ Steps(p)
               /\ r.whisp # None /\ r.whisp[1].is_file
               /\ r.whisp[1].file_path # NoPath
               /\ ~(r.whisp[1].expires_at < now)
               /\ ~PathExists(disk, r.whisp[1].file_path))
              => /\ req'[p].pc = "f_heal" /\ req'[p].status = 0
                 /\ db' = db /\ disk' = disk
        /\ \A p \in Procs :
              (req[p].pc = "f_heal" /\ Steps(p)) =>
                 /\ req'[p].status = 404 /\ req'[p].body = None
                 /\ req'[p].pc = "done"
                 /\ req[p].id \notin DOMAIN db'
                 /\ \A id \in DOMAIN db \ {req[p].id} :
                       id \in DOMAIN db' /\ db'[id] = db[id]
                 /\ disk' = disk
        /\ \A p \in Procs :
              LET r == req'[p] IN
              (/\ r.kind = "file" /\ r.status = 404 /\ r.whisp # None
               /\ r.whisp[1].is_file /\ r.whisp[1].file_path # NoPath
               /\ ~(r.whisp[1].expires_at < r.nowRead))
              => r.id \notin DOMAIN db'
        /\ \A id \in DOMAIN db' \ DOMAIN db :
              \E p \in Procs : req[p].pc = "c_insert" /\ req[p].id = id /\ Steps(p)
        /\ \A p \in Procs :
              LET r == req'[p] IN
              /\ (req[p].kind = "idle" /\ IsFetch(r) /\ r.id \notin DOMAIN db)
                    => r.whisp = None
              /\ (IsFetch(r) /\ Answered(r) /\ r.whisp = None)
                    => r.status = 404 /\ r.body = None
      ]_vars

\* The blob of a whisp nobody had downloaded was lost; a get_whisp_file found
\* the row without it and healed, and a fetch that came after loaded nothing
\* and was answered 404.
C15_HealedThenNotFound ==
    \E p, q \in Procs :
       /\ p # q
       /\ req[p].kind = "file" /\ req[p].status = 404 /\ req[p].whisp # None
       /\ req[p].whisp[1].is_file
       /\ ~(req[p].whisp[1].expires_at < req[p].nowRead)
       /\ redeemed[req[p].id] = 0
       /\ IsFetch(req[q]) /\ req[q].id = req[p].id
       /\ req[q].whisp = None /\ req[q].status = 404

(***************************************************************************)
(* C16.  A blob whose bytes were changed.  When get_whisp_file opens a     *)
(* blob that does not authenticate under the key of the row, decrypt       *)
(* raises and the request ends in a 500 with no content: that step leaves  *)
(* the table and the disk as they are, hands out nothing and schedules no  *)
(* delete_file, so a row that was there is still there.                    *)
(***************************************************************************)
C16_TamperedBlobChangesNothing ==
    [][ \A p \in Procs :
           LET r == req[p] IN
           (/\ r.pc = "f_read" /\ Steps(p)
            /\ PathExists(disk, r.whisp[1].file_path)
            /\ ~disk[r.whisp[1].file_path].sealed)
           => /\ req'[p].status = 500 /\ req'[p].body = None
              /\ req'[p].content = None
              /\ req'[p].pc = "done"
              /\ db' = db /\ disk' = disk /\ redeemed' = redeemed
      ]_vars

\* Two downloads of a whisp whose blob was tampered with have both failed,
\* and the row and the blob are still there.
C16_FailedTwiceStillPresent ==
    \E p, q \in Procs :
       /\ p # q /\ req[p].id = req[q].id
       /\ req[p].kind = "file" /\ req[p].status = 500
       /\ req[q].kind = "file" /\ req[q].status = 500
       /\ req[p].id \in DOMAIN db /\ db[req[p].id] = req[p].whisp[1]
       /\ PathExists(disk, req[p].whisp[1].file_path)
       /\ ~disk[req[p].whisp[1].file_path].sealed

(***************************************************************************)
(* C17.  The sweep.  cleanup_expired_whisps reads the clock once, at its   *)
(* DELETE; its commit removes from the table exactly the rows the DELETE   *)
(* saw with expires_at < that clock: every other row, those with           *)
(* expires_at >= that clock included, is left as it is.  Neither of its    *)
(* steps changes the disk, so the blob of a swept file row stays behind.   *)
(***************************************************************************)
C17_SweepDeletesOnlyExpired ==
    [][ \A p \in Procs :
           LET r == req[p] IN
           /\ (r.pc = "sw_exec" /\ Steps(p)) =>
                 /\ db' = db /\ disk' = disk
                 /\ req'[p].nowRead = now
                 /\ req'[p].seen = DOMAIN db
                 /\ req'[p].victims = {id \in DOMAIN db : db[id].expires_at < now}
           /\ (r.pc = "sw_commit" /\ Steps(p)) =>
                 /\ disk' = disk
                 /\ \A id \in DOMAIN db :
                       IF id \in r.seen /\ orig[id].expires_at < r.nowRead
                       THEN id \notin DOMAIN db'
                       ELSE id \in DOMAIN db' /\ db'[id] = db[id]
                 /\ DOMAIN db' \subseteq DOMAIN db
      ]_vars

\* The row of a file whisp nobody downloaded was swept after it expired: the
\* row is gone and its blob is still on disk.
C17_SweptBlobOrphaned ==
    \E id \in DOMAIN orig :
       /\ orig[id].upload # None /\ redeemed[id] = 0
       /\ orig[id].expires_at < now
       /\ id \notin DOMAIN db
       /\ PathExists(disk, FilePath(id)) /\ disk[FilePath(id)].sealed
       /\ \A p \in Procs : ~(req[p].kind = "create" /\ req[p].id = id)

(***************************************************************************)
(* C18.  A sweep and a redeemer on one whisp.  Whichever DELETE lands      *)
(* first removes the row and the other one matches nothing and succeeds    *)
(* all the same: a sweep's commit ends its task with every row it marked   *)
(* out of the table, also when the redeemer had deleted the row before;    *)
(* a redeemer's commit answers 200 with the row out of the table, also     *)
(* when the sweep had deleted it before, and then changes nothing in the   *)
(* table.  A redeemer with the right password that overlaps no other       *)
(* handler, sweeps apart, is answered 200 or 404 and nothing else.         *)
(***************************************************************************)
C18_SweepAndRedeemerConverge ==
    [][ \A p \in Procs :
           LET r == req[p] IN
           /\ (r.pc = "sw_commit" /\ Steps(p)) =>
                 /\ req'[p] = Idle
                 /\ \A id \in r.victims : id \notin DOMAIN db'
                 /\ (r.victims \cap DOMAIN db = {}) => db' = db
           /\ (r.pc \in {"m_commit", "f_commit"} /\ Steps(p)) =>
                 /\ req'[p].status = 200
                 /\ r.id \notin DOMAIN db'
                 /\ r.id \notin DOMAIN db => db' = db
           /\ (/\ IsFetch(req'[p]) /\ Answered(req'[p]) /\ ~req'[p].raced
               /\ req'[p].id \in DOMAIN orig /\ RightPassword(req'[p]))
              => req'[p].status \in {200, 404}
      ]_vars

\* A get_whisp passed its checks before the whisp expired; the whisp then
\* expired and a sweep deleted the row; the get_whisp, which overlapped no
\* other handler, now stands before its own commit with the row gone.
C18_SweptUnderRedeemer ==
    \E p \in Procs :
       /\ req[p].pc \in {"m_commit", "f_commit"} /\ ~req[p].raced
       /\ req[p].id \notin DOMAIN db
       /\ redeemed[req[p].id] = 0
       /\ orig[req[p].id].expires_at < now

(***************************************************************************)
(* C19.  create_whisp with an upload is all or nothing: when it has        *)
(* answered with an error raised after the TTL check, wherever it was      *)
(* raised (opening the file, reading the upload, the size check,           *)
(* encrypting, writing, or the commit of the row), neither the row of its  *)
(* id nor a file at its path is left.                                      *)
(***************************************************************************)
C19_FailedCreateLeavesNothing ==
    \A p \in Procs :
       LET r == req[p] IN
       (/\ r.kind = "create" /\ r.upload # None
        /\ r.ttl >= 1 /\ r.ttl <= 10080
        /\ Answered(r) /\ r.status # 200)
       => /\ r.id \notin DOMAIN db
          /\ ~PathExists(disk, FilePath(r.id))

(***************************************************************************)
(* C20.  Rows and blobs, with nobody else touching the disk.  Every row    *)
(* with is_file has a file_path, and at that path stands the upload of its *)
(* create, encrypted under the key kept in the row; every row without      *)
(* is_file has no file_path.  A file row enters the table with its blob    *)
(* already written, and whenever a file leaves the disk the row of its     *)
(* whisp is not in the table.                                              *)
(***************************************************************************)
C20_FileRowHasItsBlob ==
    [][ /\ \A id \in DOMAIN db' :
              LET w == db'[id] IN
              IF w.is_file
              THEN /\ w.file_path # NoPath
                   /\ PathExists(disk', w.file_path)
                   /\ disk'[w.file_path] =
                         FernetEncrypt(MetadataKey(w.encrypted_payload),
                                       orig'[id].upload[1].bytes)
              ELSE w.file_path = NoPath
        /\ \A id \in DOMAIN db' \ DOMAIN db :
              db'[id].is_file =>
                 /\ PathExists(disk, db'[id].file_path)
                 /\ disk[db'[id].file_path].sealed
                 /\ disk' = disk
        /\ \A id \in WhispIds :
              (PathExists(disk, FilePath(id)) /\ ~PathExists(disk', FilePath(id)))
              => id \notin DOMAIN db /\ id \notin DOMAIN db'
      ]_vars

\* A download was refused for its password while another request was in
\* flight, the clock has moved on, and the file row and its complete blob
\* are both still there.
C20_FileRowWithBlob ==
    \E p \in Procs :
       /\ req[p].kind = "file" /\ req[p].status = 401 /\ req[p].raced
       /\ now > 0
       /\ req[p].id \in DOMAIN db /\ db[req[p].id].is_file
       /\ PathExists(disk, db[req[p].id].file_path)
       /\ disk[db[req[p].id].file_path].sealed

====
